---- MODULE Spec2Model ----
(***************************************************************************)
(* Model of the Next-Gen Deep Research backend:                            *)
(*   - run_research, the POST /api/research handler of                     *)
(*     nextgen-research-app/backend/app.py, one asynchronous task per      *)
(*     request, suspended at its awaited collaborator call;                *)
(*   - main and load_app_from_path of run.py, the process launcher.        *)
(* Text is modelled as a sequence of one-character strings, so that        *)
(* strip(), str(), the f-string of the error detail and the `or`           *)
(* fallback are computed, not assumed.                                     *)
(***************************************************************************)
EXTENDS Naturals, Sequences, FiniteSets, TLC

VARIABLES
  \* run_research, per task
  req,          \* the request the task handles
  pc,           \* where the task stands: idle, awaiting a collaborator, done
  calls,        \* the calls the task has made, in order
  result,       \* what the task's awaited call (or model set-up) produced
  resp,         \* what the task answered
  \* run.py
  lpc,          \* where main stands
  argv,         \* the command line
  args,         \* the parsed arguments
  exists_seen,  \* what backend_path.exists() answered
  loaded,       \* how load_app_from_path went
  app_obj,      \* the ASGI object main holds
  server,       \* the HTTP server: never started, running, stopped
  main_result   \* how main ended, and the process's exit code

taskVars == <<req, pc, calls, result, resp>>
launchVars == <<lpc, argv, args, exists_seen, loaded, app_obj, server, main_result>>
vars == <<req, pc, calls, result, resp,
          lpc, argv, args, exists_seen, loaded, app_obj, server, main_result>>

(***************************************************************************)
(* Bounds of the model.                                                    *)
(***************************************************************************)
\* longest question a request carries
MaxLen == 2
\* number of request tasks in flight at once
MaxTasks == 2

(***************************************************************************)
(* Text.                                                                   *)
(***************************************************************************)
Chars == {" ", "a"}
Whitespace == {" "}

StringsUpTo(n) == UNION {[1..k -> Chars] : k \in 0..n}

RECURSIVE lstrip(_)
lstrip(s) ==
  IF s # <<>> /\ Head(s) \in Whitespace THEN lstrip(Tail(s)) ELSE s

RECURSIVE rstrip(_)
rstrip(s) ==
  IF s # <<>> /\ s[Len(s)] \in Whitespace
  THEN rstrip(SubSeq(s, 1, Len(s) - 1))
  ELSE s

\* str.strip()
strip(s) == rstrip(lstrip(s))

\* s occurs in t as a contiguous substring (Python's `s in t`)
Contains(t, s) ==
  \E i \in 1..(Len(t) + 1) :
    /\ i + Len(s) - 1 <= Len(t)
    /\ SubSeq(t, i, i + Len(s) - 1) = s

(***************************************************************************)
(* Python values a collaborator can hand back in a result field: text,     *)
(* None, or a list of texts; and an object that has no content attribute,  *)
(* of which only its str() is known.                                       *)
(***************************************************************************)
PyStr(s) == [type |-> "str", v |-> s]
PyNone == [type |-> "NoneType", v |-> <<>>]
PyList(l) == [type |-> "list", v |-> l]
PyObject(s) == [type |-> "object", v |-> s]

\* bool(x)
Truthy(x) ==
  CASE x.type = "str" -> x.v # <<>>
    [] x.type = "list" -> x.v # <<>>
    [] OTHER -> FALSE

\* repr() of a text without quotes or backslashes in it
repr_str(s) == <<"'">> \o s \o <<"'">>

RECURSIVE join_repr(_)
join_repr(l) ==
  IF l = <<>> THEN <<>>
  ELSE IF Len(l) = 1 THEN repr_str(l[1])
  ELSE repr_str(l[1]) \o <<",", " ">> \o join_repr(Tail(l))

\* str(x), as a Python value
str_of(x) ==
  CASE x.type = "str" -> x
    [] x.type = "NoneType" -> PyStr(<<"N", "o", "n", "e">>)
    [] x.type = "list" -> PyStr(<<"[">> \o join_repr(x.v) \o <<"]">>)
    [] x.type = "object" -> PyStr(x.v)

NoReportGenerated ==
  PyStr(<<"N", "o", " ", "r", "e", "p", "o", "r", "t", " ", "g", "e", "n",
          "e", "r", "a", "t", "e", "d", ".">>)

\* mutant of or_placeholder: no fallback
or_nothing(x) == x

\* x or "No report generated."
or_placeholder(x) == IF Truthy(x) THEN x ELSE NoReportGenerated

(***************************************************************************)
(* Optional identifiers (provider, model, template): None or a name.       *)
(***************************************************************************)
NoneId == [type |-> "NoneType", v |-> ""]
Id(s) == [type |-> "str", v |-> s]

\* opt or default
or_default(opt, default) ==
  IF opt.type = "str" /\ opt.v # "" THEN opt.v ELSE default

(***************************************************************************)
(* ResearchRequest, as pydantic hands it to the handler.                   *)
(***************************************************************************)
Modes == {"quick", "deep_web", "deep_web_and_local", "llm_only"}
Providers == {NoneId, Id(""), Id("openai"), Id("bogus")}
Models == {NoneId, Id("gpt-4.1")}

ResearchRequest ==
  [question : StringsUpTo(MaxLen), mode : Modes, template : {NoneId},
   provider : Providers, model : Models]

NoRequest ==
  [question |-> <<>>, mode |-> "none", template |-> NoneId,
   provider |-> NoneId, model |-> NoneId]

(***************************************************************************)
(* Responses.                                                              *)
(***************************************************************************)
NoResponse == [kind |-> "none"]

QuestionMustNotBeEmpty ==
  <<"Q", "u", "e", "s", "t", "i", "o", "n", " ", "m", "u", "s", "t", " ",
    "n", "o", "t", " ", "b", "e", " ", "e", "m", "p", "t", "y", ".">>

ResearchFailed ==
  <<"R", "e", "s", "e", "a", "r", "c", "h", " ", "f", "a", "i", "l", "e",
    "d", ":", " ">>

HTTPException(status_code, detail) ==
  [kind |-> "HTTPException", status_code |-> status_code, detail |-> detail]

\* mutant of ResearchFailedDetail: a fixed message
ResearchFailedGeneric(exc) == ResearchFailed

\* f"Research failed: {exc}"
ResearchFailedDetail(exc) == ResearchFailed \o exc

\* mutant of EchoQuestion: the question is trimmed
EchoQuestionStripped(rq) == strip(rq.question)

EchoQuestion(rq) == rq.question

\* ResearchResponse(mode=..., question=..., final_report=...): the model's
\* final_report field is declared str, and a value that is no text fails
\* validation; that error is raised outside the try block and reaches the
\* server as an unhandled exception.
ResearchResponse(rq, final_report) ==
  IF final_report.type = "str"
  THEN [kind |-> "ResearchResponse", status_code |-> 200, mode |-> rq.mode,
        question |-> EchoQuestion(rq), final_report |-> final_report.v]
  ELSE [kind |-> "UnhandledError", status_code |-> 500]

(***************************************************************************)
(* The collaborators, as the handler calls them.                           *)
(***************************************************************************)
DefaultProvider == "google_genai"
DefaultModel == "gemini-2.5-pro"
SupportedProviders == {"google_genai", "openai", "anthropic"}

Collaborators == {"llm.ainvoke", "researcher_agent.ainvoke", "full_agent.ainvoke"}

\* init_chat_model(model=model_name, model_provider=provider, temperature=0.0)
init_chat_model(rq) ==
  [fn |-> "init_chat_model",
   model |-> or_default(rq.model, DefaultModel),
   model_provider |-> or_default(rq.provider, DefaultProvider),
   temperature |-> 0]

\* init_chat_model returns a chat model only for a provider it knows; it
\* raises for an unknown one, and may raise for a known one (integration
\* package or credentials missing).
init_chat_model_returns(rq) ==
  or_default(rq.provider, DefaultProvider) \in SupportedProviders

\* llm.ainvoke([{"role": "user", "content": request.question}])
llm_ainvoke(rq) ==
  [fn |-> "llm.ainvoke",
   messages |-> << [role |-> "user", content |-> rq.question] >>]

\* researcher_agent.ainvoke({"researcher_messages": [...], "research_topic": ...})
researcher_agent_ainvoke(rq) ==
  [fn |-> "researcher_agent.ainvoke",
   researcher_messages |-> << [type |-> "human", content |-> rq.question] >>,
   research_topic |-> rq.question]

\* AgentInputState(messages=[{"role": "user", "content": request.question}])
AgentInputState(rq) ==
  [messages |-> << [role |-> "user", content |-> rq.question] >>]

\* full_agent.ainvoke(initial_state)
full_agent_ainvoke(rq) ==
  [fn |-> "full_agent.ainvoke", state |-> AgentInputState(rq)]

\* mutant of Branch: the elif is left out, quick runs the full graph
BranchQuickFull(mode) == IF mode = "llm_only" THEN "llm" ELSE "full"

\* mutant of Branch: deep_web_and_local is routed to the single agent
BranchLocalQuick(mode) ==
  IF mode = "llm_only" THEN "llm"
  ELSE IF mode \in {"quick", "deep_web_and_local"} THEN "quick"
  ELSE "full"

\* the if / elif / else on request.mode
Branch(mode) ==
  IF mode = "llm_only" THEN "llm"
  ELSE IF mode = "quick" THEN "quick"
  ELSE "full"

\* dict.get(key, "")
dict_get(d, key) == IF key \in DOMAIN d THEN d[key] ELSE PyStr(<<>>)

\* mutant of llm_final_report: the content is taken without str()
llm_final_report_raw(response) ==
  or_placeholder(IF "content" \in DOMAIN response THEN response.content
                 ELSE response)

\* str(getattr(response, "content", response)) or "No report generated."
llm_final_report(response) ==
  or_placeholder(str_of(IF "content" \in DOMAIN response THEN response.content
                        ELSE response))

\* mutant of quick_final_report: reads the full graph's field
quick_final_report_wrong_key(quick_state) ==
  or_placeholder(dict_get(quick_state, "final_report"))

\* quick_state.get("compressed_research", "") or "No report generated."
quick_final_report(quick_state) ==
  or_placeholder(dict_get(quick_state, "compressed_research"))

\* result_state.get("final_report", "") or "No report generated."
full_final_report(result_state) ==
  or_placeholder(dict_get(result_state, "final_report"))

(***************************************************************************)
(* What the collaborators can answer.                                      *)
(***************************************************************************)
FieldValues ==
  {PyStr(<<>>), PyStr(<<"r">>), PyStr(<<" ">>), PyNone, PyList(<<>>),
   PyList(<< <<"r">> >>)}

Keys == {"compressed_research", "final_report"}

DictsOver(values) == UNION {[K -> values] : K \in SUBSET Keys}

\* a result state of a graph
States == DictsOver(FieldValues)

\* a completion: a message with a content field, or an object without one
Responses ==
  [type : {"AIMessage"}, v : {<<>>}, content : FieldValues]
    \cup {PyObject(<<>>), PyObject(<<"o">>)}

\* str(exc) of the exceptions a collaborator can raise
Exceptions == {<<>>, <<"x">>, <<"a", "x">>}

Returned(value) == [kind |-> "return", value |-> value]
\* the call named by raised an exception whose str() is exc
Raised(by, exc) == [kind |-> "raise", by |-> by, exc |-> exc]
NoResult == [kind |-> "none"]

(***************************************************************************)
(* run_research, task t.  Each action runs the handler from one            *)
(* suspension point to the next.                                           *)
(***************************************************************************)
\* mutant of Finish: the answer is kept in one place shared by all tasks
FinishShared(t, rsp) ==
  /\ resp' = [u \in DOMAIN resp |-> rsp]
  /\ pc' = [pc EXCEPT ![t] = "done"]

\* raise HTTPException(...) or return ResearchResponse(...): the task ends
Finish(t, rsp) ==
  /\ resp' = [resp EXCEPT ![t] = rsp]
  /\ pc' = [pc EXCEPT ![t] = "done"]

\* mutant of IsBlank: only the empty string is rejected
IsEmpty(question) == question = <<>>

\* not request.question.strip()
IsBlank(question) == strip(question) = <<>>

\* the blank question is rejected before anything is built or called
RejectBlank(t, rq) ==
  /\ pc[t] = "idle"
  /\ IsBlank(rq.question)
  /\ req' = [req EXCEPT ![t] = rq]
  /\ Finish(t, HTTPException(400, QuestionMustNotBeEmpty))
  /\ UNCHANGED <<calls, result, launchVars>>

\* llm_only: init_chat_model raises; the except clause answers 500
InitChatModelRaises(t, rq, exc) ==
  /\ pc[t] = "idle"
  /\ ~IsBlank(rq.question)
  /\ Branch(rq.mode) = "llm"
  /\ req' = [req EXCEPT ![t] = rq]
  /\ calls' = [calls EXCEPT ![t] = <<init_chat_model(rq)>>]
  /\ result' = [result EXCEPT ![t] = Raised("init_chat_model", exc)]
  /\ Finish(t, HTTPException(500, ResearchFailedDetail(exc)))
  /\ UNCHANGED launchVars

\* llm_only: the model is set up and the completion is awaited
StartLlmOnly(t, rq) ==
  /\ pc[t] = "idle"
  /\ ~IsBlank(rq.question)
  /\ Branch(rq.mode) = "llm"
  /\ init_chat_model_returns(rq)
  /\ req' = [req EXCEPT ![t] = rq]
  /\ calls' = [calls EXCEPT ![t] = <<init_chat_model(rq), llm_ainvoke(rq)>>]
  /\ pc' = [pc EXCEPT ![t] = "await_llm"]
  /\ UNCHANGED <<result, resp, launchVars>>

\* quick: the single researcher graph is awaited
StartQuick(t, rq) ==
  /\ pc[t] = "idle"
  /\ ~IsBlank(rq.question)
  /\ Branch(rq.mode) = "quick"
  /\ req' = [req EXCEPT ![t] = rq]
  /\ calls' = [calls EXCEPT ![t] = <<researcher_agent_ainvoke(rq)>>]
  /\ pc' = [pc EXCEPT ![t] = "await_quick"]
  /\ UNCHANGED <<result, resp, launchVars>>

\* deep_web, deep_web_and_local: the full graph is awaited
StartFull(t, rq) ==
  /\ pc[t] = "idle"
  /\ ~IsBlank(rq.question)
  /\ Branch(rq.mode) = "full"
  /\ req' = [req EXCEPT ![t] = rq]
  /\ calls' = [calls EXCEPT ![t] = <<full_agent_ainvoke(rq)>>]
  /\ pc' = [pc EXCEPT ![t] = "await_full"]
  /\ UNCHANGED <<result, resp, launchVars>>

\* the completion returns
LlmReturns(t, response) ==
  /\ pc[t] = "await_llm"
  /\ result' = [result EXCEPT ![t] = Returned(response)]
  /\ Finish(t, ResearchResponse(req[t], llm_final_report(response)))
  /\ UNCHANGED <<req, calls, launchVars>>

\* the single researcher graph returns its state
QuickReturns(t, quick_state) ==
  /\ pc[t] = "await_quick"
  /\ result' = [result EXCEPT ![t] = Returned(quick_state)]
  /\ Finish(t, ResearchResponse(req[t], quick_final_report(quick_state)))
  /\ UNCHANGED <<req, calls, launchVars>>

\* the full graph returns its state
FullReturns(t, result_state) ==
  /\ pc[t] = "await_full"
  /\ result' = [result EXCEPT ![t] = Returned(result_state)]
  /\ Finish(t, ResearchResponse(req[t], full_final_report(result_state)))
  /\ UNCHANGED <<req, calls, launchVars>>

\* the awaited call raises; the except clause answers 500
CollaboratorRaises(t, exc) ==
  /\ pc[t] \in {"await_llm", "await_quick", "await_full"}
  /\ result' = [result EXCEPT ![t] = Raised(calls[t][Len(calls[t])].fn, exc)]
  /\ Finish(t, HTTPException(500, ResearchFailedDetail(exc)))
  /\ UNCHANGED <<req, calls, launchVars>>

Tasks == 1..MaxTasks

InitTasks ==
  /\ req = [t \in Tasks |-> NoRequest]
  /\ pc = [t \in Tasks |-> "idle"]
  /\ calls = [t \in Tasks |-> <<>>]
  /\ result = [t \in Tasks |-> NoResult]
  /\ resp = [t \in Tasks |-> NoResponse]

(***************************************************************************)
(* run.py: main and load_app_from_path.                                    *)
(***************************************************************************)
DefaultHost == "127.0.0.1"
DefaultPort == 8000

\* command lines: a flag left out is "", --port may carry no integer
Argvs ==
  [host : {"", "0.0.0.0", "localhost"}, port : {"", "9000", "abc"},
   reload : BOOLEAN, help : BOOLEAN]

IsInt(s) == s \in {"9000"}
IntOf(s) == IF s = "9000" THEN 9000 ELSE 0

NoArgs == [host |-> "", port |-> 0, reload |-> FALSE]

\* parser.parse_args(argv), when it returns
parse_args(a) ==
  [host |-> IF a.host = "" THEN DefaultHost ELSE a.host,
   port |-> IF a.port = "" THEN DefaultPort ELSE IntOf(a.port),
   reload |-> a.reload]

\* argparse leaves by SystemExit: 0 after --help, 2 after a usage error
parse_args_exits(a) == a.help \/ (a.port # "" /\ ~IsInt(a.port))
parse_args_exit_code(a) == IF a.help THEN 0 ELSE 2

Running == [kind |-> "running", code |-> 0]
Return(code) == [kind |-> "return", code |-> code]
SystemExit(code) == [kind |-> "SystemExit", code |-> code]
\* an exception no one catches: traceback, exit status 1
Uncaught == [kind |-> "exception", code |-> 1]

\* what exec_module leaves in the module's namespace
Modules == {{}, {"app"}, {"app", "run_research"}, {"application"}}

\* hasattr(module, "app")
hasattr_app(module) == "app" \in module

EndMain(how) ==
  /\ main_result' = how
  /\ lpc' = "exited"

\* args = parser.parse_args(argv)
ParseArgs ==
  /\ lpc = "start"
  /\ ~parse_args_exits(argv)
  /\ args' = parse_args(argv)
  /\ lpc' = "parsed"
  /\ UNCHANGED <<argv, exists_seen, loaded, app_obj, server, main_result, taskVars>>

ParseArgsExits ==
  /\ lpc = "start"
  /\ parse_args_exits(argv)
  /\ EndMain(SystemExit(parse_args_exit_code(argv)))
  /\ UNCHANGED <<argv, args, exists_seen, loaded, app_obj, server, taskVars>>

\* mutant of BackendMissing: the early return is left out
BackendMissingFallsThrough ==
  /\ lpc = "parsed"
  /\ exists_seen' = "no"
  /\ lpc' = "found"
  /\ UNCHANGED <<argv, args, loaded, app_obj, server, main_result, taskVars>>

\* if not backend_path.exists(): print(...); return 2
BackendMissing ==
  /\ lpc = "parsed"
  /\ exists_seen' = "no"
  /\ EndMain(Return(2))
  /\ UNCHANGED <<argv, args, loaded, app_obj, server, taskVars>>

BackendFound ==
  /\ lpc = "parsed"
  /\ exists_seen' = "yes"
  /\ lpc' = "found"
  /\ UNCHANGED <<argv, args, loaded, app_obj, server, main_result, taskVars>>

\* load_app_from_path: spec is None or spec.loader is None
LoadSpecMissing ==
  /\ lpc = "found"
  /\ loaded' = "no_spec"
  /\ EndMain(Uncaught)
  /\ UNCHANGED <<argv, args, exists_seen, app_obj, server, taskVars>>

\* load_app_from_path: exec_module raises (import error, file gone)
LoadExecRaises ==
  /\ lpc = "found"
  /\ loaded' = "exec_raised"
  /\ EndMain(Uncaught)
  /\ UNCHANGED <<argv, args, exists_seen, app_obj, server, taskVars>>

\* load_app_from_path: the module has no attribute app
LoadNoApp(module) ==
  /\ lpc = "found"
  /\ ~hasattr_app(module)
  /\ loaded' = "no_app"
  /\ EndMain(Uncaught)
  /\ UNCHANGED <<argv, args, exists_seen, app_obj, server, taskVars>>

\* load_app_from_path returns getattr(module, "app")
LoadApp(module) ==
  /\ lpc = "found"
  /\ hasattr_app(module)
  /\ loaded' = "ok"
  /\ app_obj' = "app"
  /\ lpc' = "loaded"
  /\ UNCHANGED <<argv, args, exists_seen, server, main_result, taskVars>>

\* uvicorn.run(app, host=..., port=..., reload=...) brings the server up
UvicornServes ==
  /\ lpc = "loaded"
  /\ server' = "running"
  /\ lpc' = "serving"
  /\ UNCHANGED <<argv, args, exists_seen, loaded, app_obj, main_result, taskVars>>

\* uvicorn.run leaves by SystemExit without serving: reload asked for an
\* app object instead of an import string (1), or start-up failed (3)
UvicornExits ==
  /\ lpc = "loaded"
  /\ EndMain(SystemExit(IF args.reload THEN 1 ELSE 3))
  /\ UNCHANGED <<argv, args, exists_seen, loaded, app_obj, server, taskVars>>

\* the server shuts down, uvicorn.run returns, main returns 0
ServerShutsDown ==
  /\ lpc = "serving"
  /\ server' = "stopped"
  /\ EndMain(Return(0))
  /\ UNCHANGED <<argv, args, exists_seen, loaded, app_obj, taskVars>>

\* the launcher as it stands while requests are served
Serving ==
  /\ lpc = "serving"
  /\ argv = [host |-> "", port |-> "", reload |-> FALSE, help |-> FALSE]
  /\ args = parse_args(argv)
  /\ exists_seen = "yes"
  /\ loaded = "ok"
  /\ app_obj = "app"
  /\ server = "running"
  /\ main_result = Running

(***************************************************************************)
(* Specifications.                                                         *)
(***************************************************************************)
\* one request, every request and every answer of its collaborator
Init == InitTasks /\ Serving

Next ==
  \/ \E rq \in ResearchRequest : RejectBlank(1, rq)
  \/ \E rq \in ResearchRequest, exc \in Exceptions : InitChatModelRaises(1, rq, exc)
  \/ \E rq \in ResearchRequest : StartLlmOnly(1, rq)
  \/ \E rq \in ResearchRequest : StartQuick(1, rq)
  \/ \E rq \in ResearchRequest : StartFull(1, rq)
  \/ \E response \in Responses : LlmReturns(1, response)
  \/ \E quick_state \in States : QuickReturns(1, quick_state)
  \/ \E result_state \in States : FullReturns(1, result_state)
  \/ \E exc \in Exceptions : CollaboratorRaises(1, exc)

Spec == Init /\ [][Next]_vars

\* several requests in flight, resumed in any order
ConcRequests ==
  {rq \in ResearchRequest :
     /\ rq.question \in {<<" ">>, <<"a">>, <<" ", "a">>}
     /\ rq.provider = NoneId
     /\ rq.model = NoneId}
ConcStates == DictsOver({PyStr(<<>>), PyStr(<<"r">>)})
ConcResponses ==
  [type : {"AIMessage"}, v : {<<>>}, content : {PyStr(<<>>), PyStr(<<"r">>)}]
ConcExceptions == {<<"x">>}

NextConc ==
  \E t \in Tasks :
    \/ \E rq \in ConcRequests : RejectBlank(t, rq)
    \/ \E rq \in ConcRequests, exc \in ConcExceptions : InitChatModelRaises(t, rq, exc)
    \/ \E rq \in ConcRequests : StartLlmOnly(t, rq)
    \/ \E rq \in ConcRequests : StartQuick(t, rq)
    \/ \E rq \in ConcRequests : StartFull(t, rq)
    \/ \E response \in ConcResponses : LlmReturns(t, response)
    \/ \E quick_state \in ConcStates : QuickReturns(t, quick_state)
    \/ \E result_state \in ConcStates : FullReturns(t, result_state)
    \/ \E exc \in ConcExceptions : CollaboratorRaises(t, exc)

SpecConc == Init /\ [][NextConc]_vars

\* the launcher, from the command line to the exit code
InitLauncher ==
  /\ InitTasks
  /\ lpc = "start"
  /\ argv \in Argvs
  /\ args = NoArgs
  /\ exists_seen = "unchecked"
  /\ loaded = "no"
  /\ app_obj = "none"
  /\ server = "never"
  /\ main_result = Running

NextLauncher ==
  \/ ParseArgs
  \/ ParseArgsExits
  \/ BackendMissing
  \/ BackendFound
  \/ LoadSpecMissing
  \/ LoadExecRaises
  \/ \E module \in Modules : LoadNoApp(module)
  \/ \E module \in Modules : LoadApp(module)
  \/ UvicornServes
  \/ UvicornExits
  \/ ServerShutsDown

SpecLauncher == InitLauncher /\ [][NextLauncher]_vars

(***************************************************************************)
(* Vocabulary of the properties.                                           *)
(***************************************************************************)
AllWhitespace(q) == \A i \in 1..Len(q) : q[i] \in Whitespace
IsCollaboratorCall(c) == c.fn \in Collaborators
CollaboratorCalls(t) == SelectSeq(calls[t], IsCollaboratorCall)
Started(t) == pc[t] # "idle"
Done(t) == pc[t] = "done"
Succeeded(t) == Done(t) /\ resp[t].kind = "ResearchResponse"
ServerError(t) == Done(t) /\ resp[t].kind # "ResearchResponse" /\ resp[t].status_code = 500
NonBlank(t) == Started(t) /\ ~AllWhitespace(req[t].question)
SelectedCollaborator(mode) ==
  CASE mode = "llm_only" -> "llm.ainvoke"
    [] mode = "quick" -> "researcher_agent.ainvoke"
    [] mode \in {"deep_web", "deep_web_and_local"} -> "full_agent.ainvoke"
UserTurn(q) == << [role |-> "user", content |-> q] >>
HumanTurn(q) == << [type |-> "human", content |-> q] >>
DeepModes == {"deep_web", "deep_web_and_local"}
\* the field a graph's state carries under key, when it is a non-empty text
HasText(d, key) == key \in DOMAIN d /\ d[key].type = "str" /\ d[key].v # <<>>

(***************************************************************************)
(* C1: a request whose question is empty or all whitespace, in any mode,   *)
(* is answered 400 and no call at all is made for it, at any point.        *)
(***************************************************************************)
C1_BlankRejected ==
  \A t \in Tasks :
    (Started(t) /\ AllWhitespace(req[t].question)) =>
      /\ Done(t)
      /\ resp[t].kind = "HTTPException"
      /\ resp[t].status_code = 400
      /\ calls[t] = <<>>
      /\ result[t] = NoResult

C1_Witness ==
  \E t \in Tasks :
    /\ Done(t)
    /\ req[t].question = <<" ", " ">>
    /\ req[t].mode = "deep_web"
    /\ resp[t].status_code = 400

(***************************************************************************)
(* C2, as claimed: a non-blank request ends with exactly one collaborator  *)
(* invocation, the one its mode selects.                                   *)
(***************************************************************************)
C2_ExactlyOnce ==
  \A t \in Tasks :
    NonBlank(t) =>
      /\ Len(CollaboratorCalls(t)) = 1
      /\ CollaboratorCalls(t)[1].fn = SelectedCollaborator(req[t].mode)

(***************************************************************************)
(* C2, amended: a non-blank request never has more than one collaborator   *)
(* invocation and never one its mode does not select; it has exactly one   *)
(* in every execution but the llm_only one whose model set-up raised,      *)
(* which ends in a server error with none.                                 *)
(***************************************************************************)
C2_AtMostOnce ==
  \A t \in Tasks :
    NonBlank(t) =>
      /\ Len(CollaboratorCalls(t)) <= 1
      /\ \A i \in 1..Len(CollaboratorCalls(t)) :
           CollaboratorCalls(t)[i].fn = SelectedCollaborator(req[t].mode)
      /\ \/ Len(CollaboratorCalls(t)) = 1
         \/ /\ req[t].mode = "llm_only"
            /\ calls[t] = <<init_chat_model(req[t])>>
            /\ result[t].kind = "raise"
            /\ result[t].by = "init_chat_model"
            /\ ServerError(t)
      /\ Succeeded(t) => Len(CollaboratorCalls(t)) = 1

C2_Witness ==
  \E t \in Tasks :
    /\ ServerError(t)
    /\ req[t].mode = "deep_web_and_local"
    /\ Len(calls[t]) = 1
    /\ calls[t][1].fn = "full_agent.ainvoke"

C4_LlmOnlyAsClaimed ==
  \A t \in Tasks :
    (NonBlank(t) /\ req[t].mode = "llm_only") =>
      /\ Len(CollaboratorCalls(t)) = 1
      /\ CollaboratorCalls(t)[1].fn = "llm.ainvoke"
      /\ CollaboratorCalls(t)[1].messages = UserTurn(req[t].question)
      /\ (Succeeded(t) /\ "content" \in DOMAIN result[t].value) =>
           PyStr(resp[t].final_report) =
             IF result[t].value.content.v = <<>> THEN NoReportGenerated
             ELSE result[t].value.content

(***************************************************************************)
(* C4, amended: an llm_only request with a non-blank question makes at     *)
(* most one completion call, with the question as its only message, and    *)
(* exactly one once the model set-up has returned; a successful answer's   *)
(* final_report is the content when that is a non-empty text, the          *)
(* placeholder when it is the empty text, and otherwise str() of the       *)
(* content (of the response itself when it has no content field), the      *)
(* placeholder standing in only for an empty string.                       *)
(***************************************************************************)
C4_LlmOnly ==
  \A t \in Tasks :
    (NonBlank(t) /\ req[t].mode = "llm_only") =>
      /\ Len(CollaboratorCalls(t)) <= 1
      /\ \A i \in 1..Len(CollaboratorCalls(t)) :
           /\ CollaboratorCalls(t)[i].fn = "llm.ainvoke"
           /\ CollaboratorCalls(t)[i].messages = UserTurn(req[t].question)
      /\ calls[t][1].fn = "init_chat_model"
      /\ (pc[t] = "await_llm" \/ result[t].kind = "return" \/ Len(calls[t]) > 1)
           => Len(CollaboratorCalls(t)) = 1
      /\ Succeeded(t) =>
           LET r == result[t].value
               got == PyStr(resp[t].final_report)
           IN  IF "content" \in DOMAIN r /\ r.content.type = "str"
               THEN got = IF r.content.v = <<>> THEN NoReportGenerated
                          ELSE r.content
               ELSE LET text == str_of(IF "content" \in DOMAIN r THEN r.content
                                       ELSE r)
                    IN  got = IF text.v = <<>> THEN NoReportGenerated ELSE text

C4_Witness ==
  \E t \in Tasks :
    /\ Succeeded(t)
    /\ req[t].mode = "llm_only"
    /\ req[t].question = <<"a", " ">>
    /\ calls[t][2] = [fn |-> "llm.ainvoke", messages |-> UserTurn(<<"a", " ">>)]
    /\ result[t].value = [type |-> "AIMessage", v |-> <<>>, content |-> PyStr(<<"r">>)]
    /\ resp[t].final_report = <<"r">>

(***************************************************************************)
(* C5: a quick request with a non-blank question makes exactly one         *)
(* invocation of the single researcher graph, seeded with the question as  *)
(* the one message and as the research topic; a successful answer's        *)
(* final_report is the compressed_research field of the returned state,    *)
(* or the placeholder if that field is absent or empty.                    *)
(***************************************************************************)
C5_Quick ==
  \A t \in Tasks :
    (NonBlank(t) /\ req[t].mode = "quick") =>
      /\ calls[t] =
           << [fn |-> "researcher_agent.ainvoke",
               researcher_messages |-> HumanTurn(req[t].question),
               research_topic |-> req[t].question] >>
      /\ Succeeded(t) =>
           PyStr(resp[t].final_report) =
             IF HasText(result[t].value, "compressed_research")
             THEN result[t].value["compressed_research"]
             ELSE NoReportGenerated

C5_Witness ==
  \E t \in Tasks :
    /\ Succeeded(t)
    /\ req[t].mode = "quick"
    /\ req[t].question = <<" ", "a">>
    /\ result[t].value =
         [compressed_research |-> PyStr(<<"r">>), final_report |-> PyStr(<<>>)]
    /\ resp[t].final_report = <<"r">>

(***************************************************************************)
(* C6: a deep_web or deep_web_and_local request with a non-blank question  *)
(* makes exactly one invocation of the full graph, seeded with the         *)
(* question as the only message; a successful answer's final_report is     *)
(* the final_report field of the returned state, or the placeholder if     *)
(* absent or empty; and two requests that differ only in which of the two  *)
(* modes they name make the same invocation and, for the same graph        *)
(* result, get the same final_report.                                      *)
(***************************************************************************)
C6_Deep ==
  /\ \A t \in Tasks :
       (NonBlank(t) /\ req[t].mode \in DeepModes) =>
         /\ calls[t] =
              << [fn |-> "full_agent.ainvoke",
                  state |-> [messages |-> UserTurn(req[t].question)]] >>
         /\ Succeeded(t) =>
              PyStr(resp[t].final_report) =
                IF HasText(result[t].value, "final_report")
                THEN result[t].value["final_report"]
                ELSE NoReportGenerated
  /\ \A t, u \in Tasks :
       (/\ Started(t) /\ Started(u)
        /\ req[t].mode \in DeepModes /\ req[u].mode \in DeepModes
        /\ [req[t] EXCEPT !.mode = "deep_web"] = [req[u] EXCEPT !.mode = "deep_web"]) =>
         /\ calls[t] = calls[u]
         /\ (Done(t) /\ Done(u) /\ result[t] = result[u]) =>
              /\ resp[t].kind = resp[u].kind
              /\ resp[t].kind = "ResearchResponse" =>
                   resp[t].final_report = resp[u].final_report

C6_Witness ==
  \E t, u \in Tasks :
    /\ Succeeded(t) /\ Succeeded(u)
    /\ req[t].mode = "deep_web" /\ req[u].mode = "deep_web_and_local"
    /\ req[t].question = <<" ", "a">> /\ req[u].question = <<" ", "a">>
    /\ result[t] = Returned([final_report |-> PyStr(<<"r">>)])
    /\ result[u] = result[t]
    /\ resp[t].final_report = <<"r">>
    /\ resp[u].final_report = <<"r">>

(***************************************************************************)
(* C7: a success answer carries the request's mode and the request's       *)
(* question as they came in, the question neither trimmed nor otherwise    *)
(* changed, whatever the collaborator returned.                            *)
(***************************************************************************)
C7_Echo ==
  \A t \in Tasks :
    Succeeded(t) =>
      /\ resp[t].mode = req[t].mode
      /\ resp[t].question = req[t].question

C7_Witness ==
  \E t \in Tasks :
    /\ Succeeded(t)
    /\ req[t].question = <<" ", "a">>
    /\ resp[t].question = <<" ", "a">>
    /\ req[t].mode = "deep_web_and_local"
    /\ resp[t].mode = "deep_web_and_local"

(***************************************************************************)
(* C8: when the model set-up or the awaited collaborator raises, the       *)
(* request is answered 500 with a detail that contains the error's text,   *)
(* no success body is produced, and nothing is called again.               *)
(***************************************************************************)
C8_ErrorPassthrough ==
  \A t \in Tasks :
    result[t].kind = "raise" =>
      /\ Done(t)
      /\ resp[t].kind = "HTTPException"
      /\ resp[t].status_code = 500
      /\ Contains(resp[t].detail, result[t].exc)
      /\ Len(CollaboratorCalls(t)) <= 1
      /\ calls[t][Len(calls[t])].fn = result[t].by
      /\ \A i \in 1..(Len(calls[t]) - 1) : calls[t][i].fn = "init_chat_model"

C8_Witness ==
  \E t \in Tasks :
    /\ result[t] = Raised("init_chat_model", <<"a", "x">>)
    /\ calls[t] = <<init_chat_model(req[t])>>
    /\ resp[t].status_code = 500

(***************************************************************************)
(* C9: main returns 2, with the module not loaded and the server never     *)
(* started, when the backend file is not found; a module without app ends  *)
(* start-up with a non-zero exit and no server; the server is started      *)
(* only with a loaded app; main returns 0 only after the server stopped.   *)
(***************************************************************************)
C9_Launcher ==
  /\ exists_seen = "no" =>
       /\ main_result = Return(2)
       /\ loaded = "no"
       /\ app_obj = "none"
       /\ server = "never"
  /\ loaded = "no_app" =>
       /\ main_result.kind = "exception"
       /\ main_result.code # 0
       /\ server = "never"
  /\ server # "never" => (loaded = "ok" /\ app_obj = "app" /\ exists_seen = "yes")
  /\ (main_result.kind = "return" /\ main_result.code = 0) => server = "stopped"
  /\ server = "stopped" => main_result = Return(0)

C9_Witness ==
  /\ exists_seen = "no"
  /\ main_result = Return(2)
  /\ args.port = 9000

\* two tasks with the same request and the same result end the same
C10_SameOutcome ==
  \A t, u \in Tasks :
    (Done(t) /\ Done(u) /\ req[t] = req[u] /\ result[t] = result[u]) =>
      (resp[t] = resp[u] /\ calls[t] = calls[u])

\* a step that does not move task t leaves everything of task t as it was
C10_NoInterference ==
  \A t \in Tasks :
    (pc'[t] = pc[t]) =>
      /\ req'[t] = req[t]
      /\ calls'[t] = calls[t]
      /\ result'[t] = result[t]
      /\ resp'[t] = resp[t]

(***************************************************************************)
(* C10: with several requests in flight, a step of one task changes        *)
(* nothing of another, an ended task keeps its answer, and two tasks with  *)
(* the same request and the same collaborator result end the same.         *)
(***************************************************************************)
C10_Independent == [](C10_SameOutcome) /\ [][C10_NoInterference]_vars

C10_Witness ==
  \E t, u \in Tasks :
    /\ t < u
    /\ pc[t] = "await_quick"
    /\ Succeeded(u)
    /\ req[u].mode = "deep_web"
    /\ req[t].question # req[u].question

====
